---- MODULE Spec2Model ----
(***************************************************************************)
(* Verification model of the DARP formulation engine:                      *)
(*   - DARPModelLB   (python/pymoo/src/darp_model.py)                      *)
(*   - DARPModelLAEB (python/pymoo/src/darp_model_laeb.py)                 *)
(* The life cycle  construct -> solve -> get_route_summary  is a state     *)
(* machine.  The MILP solver is external: solve() loads into the model     *)
(* whatever assignment the solver hands back.                              *)
(***************************************************************************)
EXTENDS Integers, Sequences, FiniteSets, TLC

VARIABLES form, data, pc, model, hasX, s_sets, status, x, B, Q, summary

vars == <<form, data, pc, model, hasX, s_sets, status, x, B, Q, summary>>

(***************************************************************************)
(* Bounds of the explored instance family.                                 *)
(***************************************************************************)
MaxT == 5
MaxK == 2
MaxCap == 2
MaxArcs == 3
MaxId == 4

(***************************************************************************)
(* Generic helpers.                                                        *)
(***************************************************************************)
Range(seq) == {seq[k] : k \in 1..Len(seq)}

Last(seq) == seq[Len(seq)]

Min(a, b) == IF a <= b THEN a ELSE b

Max(a, b) == IF a >= b THEN a ELSE b

RECURSIVE SumSet(_, _)
SumSet(S, f) ==
    IF S = {} THEN 0
    ELSE LET a == CHOOSE a \in S : TRUE IN f[a] + SumSet(S \ {a}, f)

RECURSIVE Pow(_, _)
Pow(b, k) == IF k = 0 THEN 1 ELSE b * Pow(b, k - 1)

RECURSIVE Flatten(_)
Flatten(ss) == IF ss = <<>> THEN <<>> ELSE Head(ss) \o Flatten(Tail(ss))

\* Sequences over S without repetition, of length at most k.
RECURSIVE Lists(_, _)
Lists(S, k) ==
    IF k = 0 THEN {<<>>}
    ELSE LET shorter == Lists(S, k - 1)
         IN shorter \cup {Append(q, a) : q \in shorter, a \in S}

NoDup(seq) == \A a, b \in 1..Len(seq) : seq[a] = seq[b] => a = b

(***************************************************************************)
(* Node names: f"{i}+" and f"{i}-".                                        *)
(***************************************************************************)
Pickup(i) == ToString(i) \o "+"

Delivery(i) == ToString(i) \o "-"

START == "0_start"

END == "0_end"

DEPOT == "0"

depot_event == <<"0">>

(***************************************************************************)
(* validate_data: the keys each formulation requires.                      *)
(***************************************************************************)
LBRequiredKeys ==
    <<"Requests", "P", "D", "costs", "travel_times", "service_times",
      "load_change", "tw_start", "tw_end", "max_ride_time", "capacity",
      "vehicles">>

LAEBRequiredKeys ==
    <<"V", "A", "Requests", "P", "D", "J", "costs", "travel_times",
      "service_times", "tw_start", "tw_end", "max_ride_time", "vehicles">>

RequiredKeys(f) == IF f = "LB" THEN LBRequiredKeys ELSE LAEBRequiredKeys

\* The first missing key, in the order of required_keys ("" when none).
RECURSIVE FirstMissing(_, _)
FirstMissing(keys, present) ==
    IF keys = <<>> THEN ""
    ELSE IF Head(keys) \notin present THEN Head(keys)
    ELSE FirstMissing(Tail(keys), present)

validate_data(f, d) == FirstMissing(RequiredKeys(f), d.keys)

(***************************************************************************)
(* The keys _build_model reads from self.data, in the order it reads them. *)
(* LB: sets, _generate_s_sets is reached later but reads P, D, Requests.   *)
(* LAEB: 'travel_matrix' is read inside the time_consistency rule.         *)
(***************************************************************************)
LBBuildReads ==
    <<"Requests", "P", "D", "costs", "travel_times", "service_times",
      "load_change", "tw_start", "tw_end", "max_ride_time", "capacity",
      "vehicles">>

LAEBBuildReads ==
    <<"V", "A", "Requests", "J", "costs", "travel_times", "service_times",
      "tw_start", "tw_end", "max_ride_time", "vehicles", "travel_matrix">>

BuildReads(f) == IF f = "LB" THEN LBBuildReads ELSE LAEBBuildReads

\* Reads that happen while a Constraint rule runs (after Sets/Params/Vars).
ConstraintReads(f) == IF f = "LB" THEN {} ELSE {"travel_matrix"}

(***************************************************************************)
(* LB sets: m.J and m.A.                                                   *)
(***************************************************************************)
LB_Jminus(d) == d.P \o d.D

LB_J(d) == <<START>> \o LB_Jminus(d) \o <<END>>

\* m.A as the ordered list  [(i,j) for i in J for j in J if ...].
LB_A(d) ==
    LET J == LB_J(d)
        row(i) == SelectSeq([k \in 1..Len(J) |-> <<i, J[k]>>],
                            LAMBDA a : a[1] # a[2] /\ a[1] # END /\ a[2] # START)
    IN Flatten([k \in 1..Len(J) |-> row(J[k])])

(***************************************************************************)
(* itertools.combinations(seq, r), in the order itertools yields them.     *)
(***************************************************************************)
RECURSIVE combinations(_, _)
combinations(seq, r) ==
    IF r = 0 THEN << <<>> >>
    ELSE IF Len(seq) < r THEN <<>>
    ELSE LET withHead == combinations(Tail(seq), r - 1)
         IN [k \in 1..Len(withHead) |-> <<Head(seq)>> \o withHead[k]]
            \o combinations(Tail(seq), r)

\* Condition (1e) of _generate_s_sets on one candidate S.
has_delivery_without_pickup(d, S) ==
    \E k \in 1..Len(d.Requests) :
        Delivery(d.Requests[k]) \in S /\ Pickup(d.Requests[k]) \notin S

\* One round of the outer loop of _generate_s_sets (subset size r).
SSetsOfSize(d, r) ==
    LET all_nodes == d.P \o d.D
        cands == combinations(all_nodes, r)
        asSets == [k \in 1..Len(cands) |-> Range(cands[k]) \cup {START}]
    IN SelectSeq(asSets, LAMBDA S : has_delivery_without_pickup(d, S))

\* Variant: the size loop starts at range(2, ...) and misses the singletons.
_generate_s_sets_from2(d) ==
    LET all_nodes == d.P \o d.D
    IN Flatten([r \in 1..(Len(all_nodes) - 1) |-> SSetsOfSize(d, r + 1)])

_generate_s_sets(d) ==
    LET all_nodes == d.P \o d.D
    IN Flatten([r \in 1..Len(all_nodes) |-> SSetsOfSize(d, r)])

(***************************************************************************)
(* Input data bundles.                                                     *)
(***************************************************************************)
LBKeys == Range(LBRequiredKeys)

LAEBKeys == Range(LAEBRequiredKeys) \cup {"travel_matrix", "capacity"}

NoFn == <<>>

\* An LB bundle shaped like get_example_instance / get_demanding_instance:
\* uniform travel time tau between distinct nodes (costs = travel_times),
\* service time sv at customers, ride limit L, and time windows "wide"
\* ([0, MaxT] everywhere), "staggered" (pickups close one unit earlier,
\* deliveries open one unit later) or "narrow" ([0, 1] everywhere).
LBData(reqs, K, cap, tau, sv, win, L) ==
    LET P == [k \in 1..Len(reqs) |-> Pickup(reqs[k])]
        D == [k \in 1..Len(reqs) |-> Delivery(reqs[k])]
        nodes == Range(P) \cup Range(D)
        all_nodes == {START, END} \cup nodes
        tt == [a \in all_nodes \X all_nodes |-> IF a[1] = a[2] THEN 0 ELSE tau]
    IN [keys |-> LBKeys,
        Requests |-> reqs, P |-> P, D |-> D,
        V |-> <<>>, A |-> <<>>, J |-> <<>>, travel_matrix |-> NoFn,
        costs |-> tt, travel_times |-> tt,
        service_times |-> [j \in all_nodes |-> IF j \in nodes THEN sv ELSE 0],
        load_change |-> [j \in all_nodes |->
                            IF j \in Range(P) THEN 1
                            ELSE IF j \in Range(D) THEN -1 ELSE 0],
        tw_start |-> [j \in all_nodes |->
                         IF j \in Range(D) /\ win = "staggered" THEN 1 ELSE 0],
        tw_end |-> [j \in all_nodes |->
                       IF win = "narrow" THEN 1
                       ELSE IF j \in Range(P) /\ win = "staggered"
                       THEN MaxT - 1 ELSE MaxT],
        max_ride_time |-> [r \in Range(reqs) |-> L],
        capacity |-> cap, vehicles |-> K]

\* The single-request scenario (travel 5 / 8 / 5, service 0/2/2, windows
\* [0,100]/[0,50]/[0,80]) as an LB bundle with split depot.
LBSingleRequest(L) ==
    LET all_nodes == {START, "1+", "1-", END}
        loc(j) == IF j \in {START, END} THEN DEPOT ELSE j
        dist(a, b) == IF a = b THEN 0
                      ELSE IF {a, b} = {DEPOT, "1+"} THEN 5
                      ELSE IF {a, b} = {DEPOT, "1-"} THEN 5
                      ELSE 8
        tt == [a \in all_nodes \X all_nodes |-> dist(loc(a[1]), loc(a[2]))]
    IN [keys |-> LBKeys,
        Requests |-> <<1>>, P |-> <<"1+">>, D |-> <<"1-">>,
        V |-> <<>>, A |-> <<>>, J |-> <<>>, travel_matrix |-> NoFn,
        costs |-> tt, travel_times |-> tt,
        service_times |-> [j \in all_nodes |-> IF j \in {"1+", "1-"} THEN 2 ELSE 0],
        load_change |-> [j \in all_nodes |->
                            IF j = "1+" THEN 1 ELSE IF j = "1-" THEN -1 ELSE 0],
        tw_start |-> [j \in all_nodes |-> 0],
        tw_end |-> [j \in all_nodes |->
                       IF j = "1+" THEN 50 ELSE IF j = "1-" THEN 80 ELSE 100],
        max_ride_time |-> [r \in {1} |-> L],
        capacity |-> 3, vehicles |-> 1]

\* test_data of laeb_example.py.  The dict literals of 'travel_matrix' repeat
\* the key '0' in the rows of '1+' and '1-'; the last value wins, so those
\* rows read {'0': 0, '1-': 8} and {'0': 0, '1+': 8}.
test_travel_matrix ==
    [i \in {"0", "1+", "1-"} |->
        IF i = "0" THEN [j \in {"0", "1+", "1-"} |->
                            IF j = "0" THEN 0 ELSE IF j = "1+" THEN 5 ELSE 10]
        ELSE IF i = "1+" THEN [j \in {"0", "1-"} |-> IF j = "0" THEN 0 ELSE 8]
        ELSE [j \in {"0", "1+"} |-> IF j = "0" THEN 0 ELSE 8]]

test_A == << << <<"0">>, <<"1+", 1>> >>,
             << <<"1+", 1>>, <<"1-", 0>> >>,
             << <<"1-", 0>>, <<"0">> >> >>

test_data(L) ==
    [keys |-> LAEBKeys,
     Requests |-> <<1>>, P |-> <<"1+">>, D |-> <<"1-">>,
     J |-> <<"0", "1+", "1-">>,
     V |-> << <<"0">>, <<"1+", 1>>, <<"1-", 0>> >>,
     A |-> test_A,
     travel_matrix |-> test_travel_matrix,
     costs |-> [a \in Range(test_A) |->
                   IF a = test_A[1] THEN 5 ELSE IF a = test_A[2] THEN 8 ELSE 5],
     travel_times |-> [a \in Range(test_A) |->
                   IF a = test_A[1] THEN 5 ELSE IF a = test_A[2] THEN 8 ELSE 5],
     service_times |-> [j \in {"0", "1+", "1-"} |-> IF j = "0" THEN 0 ELSE 2],
     load_change |-> NoFn,
     tw_start |-> [j \in {"0", "1+", "1-"} |-> 0],
     tw_end |-> [j \in {"0", "1+", "1-"} |->
                    IF j = "0" THEN 100 ELSE IF j = "1+" THEN 50 ELSE 80],
     max_ride_time |-> [r \in {1} |-> L],
     capacity |-> 3, vehicles |-> 1]

\* A two-request event graph with uniform travel time tau and windows
\* [0, MaxT]; each vehicle may serve the requests in sequence.
two_A == << << <<"0">>, <<"1+", 1>> >>,
            << <<"0">>, <<"2+", 2>> >>,
            << <<"1+", 1>>, <<"1-", 0>> >>,
            << <<"2+", 2>>, <<"2-", 0>> >>,
            << <<"1-", 0>>, <<"2+", 2>> >>,
            << <<"2-", 0>>, <<"1+", 1>> >>,
            << <<"1-", 0>>, <<"0">> >>,
            << <<"2-", 0>>, <<"0">> >> >>

LAEBTwo(K, tau, L) ==
    LET J == <<"0", "1+", "2+", "1-", "2-">>
    IN [keys |-> LAEBKeys,
        Requests |-> <<1, 2>>, P |-> <<"1+", "2+">>, D |-> <<"1-", "2-">>,
        J |-> J,
        V |-> << <<"0">>, <<"1+", 1>>, <<"2+", 2>>, <<"1-", 0>>, <<"2-", 0>> >>,
        A |-> two_A,
        travel_matrix |-> [i \in Range(J) |-> [j \in Range(J) |->
                              IF i = j THEN 0 ELSE tau]],
        costs |-> [a \in Range(two_A) |-> tau],
        travel_times |-> [a \in Range(two_A) |-> tau],
        service_times |-> [j \in Range(J) |-> 0],
        load_change |-> NoFn,
        tw_start |-> [j \in Range(J) |-> 0],
        tw_end |-> [j \in Range(J) |-> MaxT],
        max_ride_time |-> [r \in {1, 2} |-> L],
        capacity |-> 3, vehicles |-> K]

WithoutKey(d, k) == [d EXCEPT !.keys = @ \ {k}]

LBInstances ==
    {LBData(reqs, K, cap, v[1], v[2], v[3], v[4]) :
        reqs \in {<<1>>, <<1, 2>>}, K \in {1, MaxK}, cap \in {1, MaxCap},
        v \in {<<1, 0, "wide", MaxT>>, <<1, 1, "staggered", MaxT>>,
               <<1, 0, "wide", 0>>, <<0, 0, "narrow", MaxT>>,
               <<0, 0, "narrow", 0>>}}
    \cup {LBSingleRequest(1)}
    \cup {WithoutKey(LBData(<<1>>, 1, 1, 1, 0, "wide", MaxT), k) : k \in LBKeys}

LAEBInstances ==
    {test_data(30), test_data(1)}
    \cup {LAEBTwo(K, tau, L) : K \in {1, MaxK}, tau \in {0, 1}, L \in {0, MaxT}}
    \cup {WithoutKey(test_data(30), k) : k \in LAEBKeys}

(***************************************************************************)
(* An assignment of x is the set xs of arcs with value 1 (x is Binary);    *)
(* Bv and Qv are functions on the nodes.  Continuous variables are         *)
(* explored on the integer grid (all data are integers).                   *)
(***************************************************************************)
X(xs, a) == IF a \in xs THEN 1 ELSE 0

Count(S, xs) == Cardinality(S \cap xs)

(***************************************************************************)
(* DARPModelLB._build_model: constraint families (1b)-(1j).                *)
(***************************************************************************)
\* Variant: every customer node is entered at least once.
LB_visit_once_at_least(m, d, xs, j) ==
    Count({<<i, j>> : i \in {i \in Range(m.J) : <<i, j>> \in Range(m.A)}}, xs) >= 1

LB_visit_once(m, d, xs, j) ==
    Count({<<i, j>> : i \in {i \in Range(m.J) : <<i, j>> \in Range(m.A)}}, xs) = 1

LB_leave_once(m, d, xs, i) ==
    Count({<<i, j>> : j \in {j \in Range(m.J) : <<i, j>> \in Range(m.A)}}, xs) = 1

LB_fleet_limit(m, d, xs) ==
    Count({<<START, j>> : j \in {j \in Range(d.P) : <<START, j>> \in Range(m.A)}}, xs)
        <= d.vehicles

LB_precedence_pairing(m, d, ss, xs, idx) ==
    LET S == ss[idx]
        arcs_in_S == {a \in S \X S : a \in Range(m.A)}
    IN Count(arcs_in_S, xs) <= Cardinality(S) - 2

\* Variant: the window start of the tail node i is subtracted instead of e[j].
LB_M_tail_start(d, i, j) ==
    d.tw_end[i] + d.service_times[i] + d.travel_times[<<i, j>>] - d.tw_start[i]

LB_M(d, i, j) ==
    d.tw_end[i] + d.service_times[i] + d.travel_times[<<i, j>>] - d.tw_start[j]

LB_time_consistency(d, xs, Bv, i, j) ==
    Bv[i] + d.service_times[i] + d.travel_times[<<i, j>>]
        - LB_M(d, i, j) * (1 - X(xs, <<i, j>>)) <= Bv[j]

\* Variant: the Big-M term is subtracted whether or not the arc is selected.
LB_load_consistency_unswitched(d, xs, Qv, i, j) ==
    Qv[i] + d.load_change[j] - d.capacity <= Qv[j]

LB_load_consistency(d, xs, Qv, i, j) ==
    Qv[i] + d.load_change[j] - d.capacity * (1 - X(xs, <<i, j>>)) <= Qv[j]

LB_service_windows(d, Bv, j) == d.tw_start[j] <= Bv[j] /\ Bv[j] <= d.tw_end[j]

LB_capacity_lower(d, j) == Max(0, d.load_change[j])

LB_capacity_upper(d, j) == Min(d.capacity, d.capacity + d.load_change[j])

LB_capacity_bound(d, Qv, j) ==
    LB_capacity_lower(d, j) <= Qv[j] /\ Qv[j] <= LB_capacity_upper(d, j)

\* Variant: pickup and delivery are exchanged in the difference.
LB_max_ride_duration_swapped(d, Bv, r) ==
    Bv[Pickup(r)] - (Bv[Delivery(r)] + d.service_times[Pickup(r)])
        <= d.max_ride_time[r]

LB_max_ride_duration(d, Bv, r) ==
    Bv[Delivery(r)] - (Bv[Pickup(r)] + d.service_times[Pickup(r)])
        <= d.max_ride_time[r]

\* The families over x alone.
LB_RoutingOK(m, d, ss, xs) ==
    /\ \A j \in Range(LB_Jminus(d)) : LB_visit_once(m, d, xs, j)
    /\ \A i \in Range(LB_Jminus(d)) : LB_leave_once(m, d, xs, i)
    /\ LB_fleet_limit(m, d, xs)
    /\ \A idx \in 1..Len(ss) : LB_precedence_pairing(m, d, ss, xs, idx)

\* The families over x and B, restricted to the nodes of N.
LB_TimeOK(m, d, xs, Bv, N) ==
    /\ \A j \in N : LB_service_windows(d, Bv, j)
    /\ \A a \in Range(m.A) :
          (a[1] \in N /\ a[2] \in N) => LB_time_consistency(d, xs, Bv, a[1], a[2])
    /\ \A r \in Range(d.Requests) :
          (Pickup(r) \in N /\ Delivery(r) \in N) => LB_max_ride_duration(d, Bv, r)

\* The families over x and Q, restricted to the nodes of N.
LB_LoadOK(m, d, xs, Qv, N) ==
    /\ \A j \in N : LB_capacity_bound(d, Qv, j)
    /\ \A a \in Range(m.A) :
          (a[1] \in N /\ a[2] \in N) => LB_load_consistency(d, xs, Qv, a[1], a[2])

\* Every constraint of the LB model holds for the assignment (xs, Bv, Qv).
LB_Constraints(m, d, ss, xs, Bv, Qv) ==
    /\ xs \subseteq Range(m.A)
    /\ LB_RoutingOK(m, d, ss, xs)
    /\ LB_TimeOK(m, d, xs, Bv, Range(m.J))
    /\ LB_LoadOK(m, d, xs, Qv, Range(m.J))

\* objective (1a)
LB_obj(d, xs) == SumSet(xs, d.costs)

(***************************************************************************)
(* DARPModelLAEB._build_model: constraint families.                        *)
(***************************************************************************)
V_pickup(m, d, i) == {v \in Range(m.V) : v[1] = Pickup(i)}

LAEB_flow_conservation(m, d, xs, v) ==
    v = depot_event
    \/ Count({a \in Range(m.A) : a[2] = v}, xs)
         - Count({a \in Range(m.A) : a[1] = v}, xs) = 0

LAEB_visit_pickups(m, d, xs, i) ==
    Count({a \in Range(m.A) : a[2] \in V_pickup(m, d, i)}, xs) = 1

LAEB_fleet_limit(m, d, xs) ==
    Count({a \in Range(m.A) : a[1] = depot_event}, xs) <= d.vehicles

relevant_arcs(m, d, i, j) == {a \in Range(m.A) : a[1][1] = i /\ a[2][1] = j}

LAEB_M(d, i, j) ==
    d.tw_end[i] + d.service_times[i] + d.travel_matrix[i][j] - d.tw_start[j]

LAEB_time_consistency(m, d, xs, Bv, i, j) ==
    relevant_arcs(m, d, i, j) = {}
    \/ Bv[j] >= Bv[i] + d.service_times[i] + d.travel_matrix[i][j]
                  - LAEB_M(d, i, j) * (1 - Count(relevant_arcs(m, d, i, j), xs))

LAEB_time_windows(d, Bv, j) == d.tw_start[j] <= Bv[j] /\ Bv[j] <= d.tw_end[j]

LAEB_max_ride_time(d, Bv, i) ==
    Bv[Delivery(i)] - (Bv[Pickup(i)] + d.service_times[Pickup(i)])
        <= d.max_ride_time[i]

LAEB_RoutingOK(m, d, xs) ==
    /\ \A v \in Range(m.V) : LAEB_flow_conservation(m, d, xs, v)
    /\ \A i \in Range(d.Requests) : LAEB_visit_pickups(m, d, xs, i)
    /\ LAEB_fleet_limit(m, d, xs)

LAEB_TimeOK(m, d, xs, Bv, N) ==
    /\ \A j \in N : LAEB_time_windows(d, Bv, j)
    /\ \A i \in N, j \in N : LAEB_time_consistency(m, d, xs, Bv, i, j)
    /\ \A i \in Range(d.Requests) :
          (Pickup(i) \in N /\ Delivery(i) \in N) => LAEB_max_ride_time(d, Bv, i)

LAEB_Constraints(m, d, xs, Bv) ==
    /\ xs \subseteq Range(m.A)
    /\ LAEB_RoutingOK(m, d, xs)
    /\ LAEB_TimeOK(m, d, xs, Bv, Range(m.J))

LAEB_obj(d, xs) == SumSet(xs, d.costs)

(***************************************************************************)
(* Solver boundary (solve): the search space of the external MILP solver.  *)
(* Assignments are enumerated family by family so that a partial           *)
(* assignment violating a constraint is not extended.                      *)
(***************************************************************************)
\* x over A with one selected arc out of every customer node (leave_once)
\* and any selection of arcs out of the start depot.
LB_XCandidates(m, d) ==
    LET C == Range(LB_Jminus(d))
        A == Range(m.A)
        succs == {f \in [C -> Range(m.J) \ {START}] : \A i \in C : i # f[i]}
        starts == SUBSET {a \in A : a[1] = START}
    IN {O \cup {<<i, f[i]>> : i \in C} : O \in starts, f \in succs}

RECURSIVE LB_BSolutions(_, _, _, _, _)
LB_BSolutions(m, d, xs, partial, todo) ==
    IF todo = <<>> THEN {partial}
    ELSE LET j == Head(todo)
             ext == {partial @@ (j :> b) : b \in d.tw_start[j]..d.tw_end[j]}
             ok == {Bv \in ext : LB_TimeOK(m, d, xs, Bv, DOMAIN Bv)}
         IN UNION {LB_BSolutions(m, d, xs, Bv, Tail(todo)) : Bv \in ok}

RECURSIVE LB_QSolutions(_, _, _, _, _)
LB_QSolutions(m, d, xs, partial, todo) ==
    IF todo = <<>> THEN {partial}
    ELSE LET j == Head(todo)
             ext == {partial @@ (j :> v) :
                        v \in LB_capacity_lower(d, j)..LB_capacity_upper(d, j)}
             ok == {Qv \in ext : LB_LoadOK(m, d, xs, Qv, DOMAIN Qv)}
         IN UNION {LB_QSolutions(m, d, xs, Qv, Tail(todo)) : Qv \in ok}

LB_SearchOrder(d) == LB_Jminus(d) \o <<START, END>>

RECURSIVE LAEB_BSolutions(_, _, _, _, _)
LAEB_BSolutions(m, d, xs, partial, todo) ==
    IF todo = <<>> THEN {partial}
    ELSE LET j == Head(todo)
             ext == {partial @@ (j :> b) : b \in d.tw_start[j]..d.tw_end[j]}
             ok == {Bv \in ext : LAEB_TimeOK(m, d, xs, Bv, DOMAIN Bv)}
         IN UNION {LAEB_BSolutions(m, d, xs, Bv, Tail(todo)) : Bv \in ok}

\* Some B (some Q) completes xs to a satisfying assignment: depth-first
\* search that stops at the first admissible completion.
RECURSIVE LB_BExists(_, _, _, _, _)
LB_BExists(m, d, xs, partial, todo) ==
    IF todo = <<>> THEN TRUE
    ELSE \E b \in d.tw_start[Head(todo)]..d.tw_end[Head(todo)] :
            LET Bv == partial @@ (Head(todo) :> b)
            IN LB_TimeOK(m, d, xs, Bv, DOMAIN Bv)
               /\ LB_BExists(m, d, xs, Bv, Tail(todo))

RECURSIVE LB_QExists(_, _, _, _, _)
LB_QExists(m, d, xs, partial, todo) ==
    IF todo = <<>> THEN TRUE
    ELSE \E v \in LB_capacity_lower(d, Head(todo))..LB_capacity_upper(d, Head(todo)) :
            LET Qv == partial @@ (Head(todo) :> v)
            IN LB_LoadOK(m, d, xs, Qv, DOMAIN Qv)
               /\ LB_QExists(m, d, xs, Qv, Tail(todo))

RECURSIVE LAEB_BExists(_, _, _, _, _)
LAEB_BExists(m, d, xs, partial, todo) ==
    IF todo = <<>> THEN TRUE
    ELSE \E b \in d.tw_start[Head(todo)]..d.tw_end[Head(todo)] :
            LET Bv == partial @@ (Head(todo) :> b)
            IN LAEB_TimeOK(m, d, xs, Bv, DOMAIN Bv)
               /\ LAEB_BExists(m, d, xs, Bv, Tail(todo))

\* The x parts of the assignments that satisfy every constraint built.
LB_FeasibleXs(m, d, ss) ==
    {xs \in LB_XCandidates(m, d) :
        /\ LB_RoutingOK(m, d, ss, xs)
        /\ LB_BExists(m, d, xs, <<>>, LB_SearchOrder(d))
        /\ LB_QExists(m, d, xs, <<>>, LB_SearchOrder(d))}

LAEB_FeasibleXs(m, d) ==
    {xs \in SUBSET Range(m.A) :
        LAEB_RoutingOK(m, d, xs) /\ LAEB_BExists(m, d, xs, <<>>, m.J)}

FeasibleXs(f, m, d, ss) ==
    IF f = "LB" THEN LB_FeasibleXs(m, d, ss) ELSE LAEB_FeasibleXs(m, d)

NoAssignment == <<>>

\* The B parts and the Q parts that complete xs.
BSolutions(f, m, d, xs) ==
    IF f = "LB" THEN LB_BSolutions(m, d, xs, <<>>, LB_SearchOrder(d))
    ELSE LAEB_BSolutions(m, d, xs, <<>>, m.J)

QSolutions(f, m, d, xs) ==
    IF f = "LB" THEN LB_QSolutions(m, d, xs, <<>>, LB_SearchOrder(d))
    ELSE {NoAssignment}

obj(f, d, xs) == IF f = "LB" THEN LB_obj(d, xs) ELSE LAEB_obj(d, xs)

\* The assignment (xs, Bv, Qv) satisfies every constraint of the built model.
Satisfies(f, m, d, ss, xs, Bv, Qv) ==
    IF f = "LB" THEN LB_Constraints(m, d, ss, xs, Bv, Qv)
    ELSE LAEB_Constraints(m, d, xs, Bv)

(***************************************************************************)
(* __init__: validate_data, then _build_model.                             *)
(***************************************************************************)
NoModel == [J |-> <<>>, A |-> <<>>, V |-> <<>>]

BuiltModel(f, d) ==
    IF f = "LB" THEN [J |-> LB_J(d), A |-> LB_A(d), V |-> <<>>]
    ELSE [J |-> d.J, A |-> d.A, V |-> d.V]

Init ==
    /\ form \in {"LB", "LAEB"}
    /\ data \in (IF form = "LB" THEN LBInstances ELSE LAEBInstances)
    /\ pc = "start"
    /\ model = NoModel
    /\ hasX = FALSE
    /\ s_sets = <<>>
    /\ status = ""
    /\ x = {}
    /\ B = NoAssignment
    /\ Q = NoAssignment
    /\ summary = <<>>

Construct ==
    /\ pc = "start"
    /\ LET missing == validate_data(form, data)
           unread == FirstMissing(BuildReads(form), data.keys)
       IN IF missing # ""
          THEN /\ pc' = "ValueError"
               /\ status' = missing
               /\ UNCHANGED <<model, hasX, s_sets>>
          ELSE IF unread # ""
          THEN /\ pc' = "KeyError"
               /\ status' = unread
               /\ hasX' = (unread \in ConstraintReads(form))
               /\ UNCHANGED <<model, s_sets>>
          ELSE /\ pc' = "built"
               /\ model' = BuiltModel(form, data)
               /\ hasX' = TRUE
               /\ s_sets' = (IF form = "LB" THEN _generate_s_sets(data) ELSE <<>>)
               /\ UNCHANGED status
    /\ UNCHANGED <<form, data, x, B, Q, summary>>

(***************************************************************************)
(* solve(): hands the model to the solver, then loads what comes back.     *)
(* The class does not inspect the solver's termination condition.          *)
(***************************************************************************)
\* The solver run.  It either proves that no assignment satisfies the
\* constraints, or ends with an assignment that satisfies them all:
\* "optimal" when its cost is minimal, "feasible" otherwise.
SolverRun ==
    /\ pc = "built"
    /\ \E feas \in {FeasibleXs(form, model, data, s_sets)} :
         IF feas = {}
         THEN /\ status' = "infeasible"
              /\ pc' = "solved"
              /\ UNCHANGED x
         ELSE \E xs \in feas :
                /\ x' = xs
                /\ status' =
                     (IF \A ys \in feas : obj(form, data, xs) <= obj(form, data, ys)
                      THEN "optimal" ELSE "feasible")
                /\ pc' = "loading"
    /\ UNCHANGED <<form, data, model, hasX, s_sets, B, Q, summary>>

\* The values of the continuous variables of that assignment are loaded.
LoadSolution ==
    /\ pc = "loading"
    /\ \E Bv \in BSolutions(form, model, data, x), Qv \in QSolutions(form, model, data, x) :
          /\ Satisfies(form, model, data, s_sets, x, Bv, Qv) = TRUE
          /\ B' = Bv
          /\ Q' = Qv
    /\ pc' = "solved"
    /\ UNCHANGED <<form, data, model, hasX, s_sets, status, x, summary>>

\* The solver stops without a proof (time limit, solver error, numerical
\* tolerances): solve() loads whatever assignment it holds, which need not
\* satisfy the constraints.  At most MaxArcs arcs carry x = 1.
SolveUnverified ==
    /\ pc = "built"
    /\ \E xs \in SUBSET Range(model.A) :
          /\ Cardinality(xs) <= MaxArcs
          /\ x' = xs
    /\ B' = [j \in Range(model.J) |-> data.tw_start[j]]
    /\ Q' = (IF form = "LB"
             THEN [j \in Range(model.J) |-> LB_capacity_lower(data, j)]
             ELSE NoAssignment)
    /\ status' = "unverified"
    /\ pc' = "solved"
    /\ UNCHANGED <<form, data, model, hasX, s_sets, summary>>

(***************************************************************************)
(* DARPModelLB.get_route_summary                                           *)
(***************************************************************************)
\* routes: one leg per arc with x > 0.5, in the iteration order of model.x.
LB_routes(m, xs, Bv, Qv) ==
    LET sel == SelectSeq(m.A, LAMBDA a : a \in xs)
    IN [k \in 1..Len(sel) |->
           [from |-> sel[k][1], to |-> sel[k][2],
            depart_time |-> Bv[sel[k][1]], arrive_time |-> Bv[sel[k][2]],
            load_after |-> Qv[sel[k][2]]]]

\* The while loop of one walk.  The successor of a node is a function of the
\* node, so entering a node already on the path means the loop never ends.
RECURSIVE LB_walk(_, _, _, _, _)
LB_walk(routes, current, path, times, loads) ==
    IF current = END
    THEN [route |-> path, times |-> times, loads |-> loads, hangs |-> FALSE]
    ELSE LET legs == SelectSeq(routes, LAMBDA r : r.from = current)
         IN IF legs = <<>>
            THEN [route |-> path, times |-> times, loads |-> loads, hangs |-> FALSE]
            ELSE LET next_leg == legs[1]
                 IN IF next_leg.to \in Range(path)
                    THEN [route |-> path, times |-> times, loads |-> loads,
                          hangs |-> TRUE]
                    ELSE LB_walk(routes, next_leg.to,
                                 Append(path, next_leg.to),
                                 Append(times, next_leg.arrive_time),
                                 Append(loads, next_leg.load_after))

LB_walk_from(routes, route) ==
    LB_walk(routes, route.to, <<route.from, route.to>>,
            <<route.depart_time, route.arrive_time>>, <<0, route.load_after>>)

\* summary[key] = value on a dict kept as a list of entries in insertion
\* order: an existing key keeps its place and takes the new value.
DictSet(dict, key, value) ==
    IF \E k \in 1..Len(dict) : dict[k].key = key
    THEN [k \in 1..Len(dict) |->
             IF dict[k].key = key THEN [key |-> key, value |-> value] ELSE dict[k]]
    ELSE Append(dict, [key |-> key, value |-> value])

LB_entry(w) == [route |-> w.route, times |-> w.times, loads |-> w.loads]

\* Variant: the dict is keyed by path[0].
LB_summary_key_first(w) == w.route[1]

LB_summary_key(w) == w.route[2]

\* The loop "for route in routes": the dict after the legs todo are handled.
RECURSIVE LB_group(_, _, _)
LB_group(routes, todo, acc) ==
    IF todo = <<>> THEN acc
    ELSE LET route == Head(todo)
         IN IF route.from = START
            THEN LET w == LB_walk_from(routes, route)
                 IN LB_group(routes, Tail(todo),
                             DictSet(acc, LB_summary_key(w), LB_entry(w)))
            ELSE LB_group(routes, Tail(todo), acc)

LB_hangs(routes) ==
    \E k \in 1..Len(routes) :
        routes[k].from = START /\ LB_walk_from(routes, routes[k]).hangs

(***************************************************************************)
(* DARPModelLAEB.get_route_summary                                         *)
(***************************************************************************)
LAEB_active_arcs(m, xs) == SelectSeq(m.A, LAMBDA a : a \in xs)

RECURSIVE LAEB_walk(_, _, _, _, _, _)
LAEB_walk(active_arcs, Bv, curr, route, times, seen) ==
    LET outs == SelectSeq(active_arcs, LAMBDA a : a[1] = curr)
    IN IF outs = <<>>
       THEN [path |-> route, times |-> times, hangs |-> FALSE]
       ELSE LET next_arc == outs[1]
            IN IF next_arc[2][1] = DEPOT
               THEN [path |-> Append(route, DEPOT),
                     times |-> Append(times, Bv[DEPOT]), hangs |-> FALSE]
               ELSE IF next_arc[2] \in seen
               THEN [path |-> route, times |-> times, hangs |-> TRUE]
               ELSE LAEB_walk(active_arcs, Bv, next_arc[2],
                              Append(route, next_arc[2][1]),
                              Append(times, Bv[next_arc[2][1]]),
                              seen \cup {next_arc[2]})

LAEB_walk_from(active_arcs, Bv, start_arc) ==
    LAEB_walk(active_arcs, Bv, start_arc[2],
              <<start_arc[1][1], start_arc[2][1]>>,
              <<Bv[start_arc[1][1]], Bv[start_arc[2][1]]>>,
              {start_arc[2]})

LAEB_starts(active_arcs) == SelectSeq(active_arcs, LAMBDA a : a[1] = depot_event)

LAEB_group(active_arcs, Bv) ==
    LET starts == LAEB_starts(active_arcs)
    IN [k \in 1..Len(starts) |->
           LET w == LAEB_walk_from(active_arcs, Bv, starts[k])
           IN [path |-> w.path, times |-> w.times]]

LAEB_hangs(active_arcs, Bv) ==
    \E k \in 1..Len(LAEB_starts(active_arcs)) :
        LAEB_walk_from(active_arcs, Bv, LAEB_starts(active_arcs)[k]).hangs

(***************************************************************************)
(* get_route_summary(), both classes.                                      *)
(*   pc = "reported": the "not solved" string is returned;                 *)
(*   pc = "raised":   value() is applied to a variable that holds no value *)
(*                    and raises;                                          *)
(*   pc = "hung":     a walk loops for ever;                               *)
(*   pc = "done":     the itineraries are returned in summary.             *)
(***************************************************************************)
Loaded == pc # "loading" /\ status \in {"optimal", "feasible", "unverified"}

GetRouteSummary ==
    /\ pc \in {"built", "solved"}
    /\ IF ~hasX
       THEN /\ pc' = "reported"
            /\ UNCHANGED summary
       ELSE IF ~Loaded
       THEN /\ pc' = "raised"
            /\ UNCHANGED summary
       ELSE IF form = "LB"
       THEN \E routes \in {LB_routes(model, x, B, Q)} :
               IF LB_hangs(routes)
               THEN /\ pc' = "hung"
                    /\ UNCHANGED summary
               ELSE /\ pc' = "done"
                    /\ summary' = LB_group(routes, routes, <<>>)
       ELSE \E active_arcs \in {LAEB_active_arcs(model, x)} :
               IF LAEB_hangs(active_arcs, B)
               THEN /\ pc' = "hung"
                    /\ UNCHANGED summary
               ELSE /\ pc' = "done"
                    /\ summary' = LAEB_group(active_arcs, B)
    /\ UNCHANGED <<form, data, model, hasX, s_sets, status, x, B, Q>>

Next ==
    \/ Construct
    \/ SolverRun
    \/ LoadSolution
    \/ SolveUnverified
    \/ GetRouteSummary

Spec == Init /\ [][Next]_vars

(***************************************************************************)
(* The successor walks on assignments that meet the degree constraints.    *)
(***************************************************************************)
\* visit_once and leave_once hold for xs at every customer node.
LB_DegreesOK(m, d, xs) ==
    /\ xs \subseteq Range(m.A)
    /\ \A j \in Range(LB_Jminus(d)) : LB_visit_once(m, d, xs, j)
    /\ \A i \in Range(LB_Jminus(d)) : LB_leave_once(m, d, xs, i)

\* The solver stops without a proof while holding an x that meets
\* visit_once and leave_once; the other constraint families may be violated.
SolveDegreeFeasible ==
    /\ pc = "built"
    /\ form = "LB"
    /\ \E xs \in LB_XCandidates(model, data) :
          /\ LB_DegreesOK(model, data, xs) = TRUE
          /\ x' = xs
    /\ B' = [j \in Range(model.J) |-> data.tw_start[j]]
    /\ Q' = [j \in Range(model.J) |-> LB_capacity_lower(data, j)]
    /\ status' = "unverified"
    /\ pc' = "solved"
    /\ UNCHANGED <<form, data, model, hasX, s_sets, summary>>

NextWalk ==
    \/ Construct
    \/ SolveDegreeFeasible
    \/ GetRouteSummary

SpecWalk == Init /\ [][NextWalk]_vars

(***************************************************************************)
(* _generate_s_sets on its own: request lists without repetition over the  *)
(* identifiers 1..MaxId.                                                   *)
(***************************************************************************)
GenInstances ==
    {LBData(reqs, 1, 1, 1, 0, "wide", MaxT) :
        reqs \in {q \in Lists(1..MaxId, MaxId) : NoDup(q)}}

InitGen ==
    /\ form = "LB"
    /\ data \in GenInstances
    /\ pc = "gen"
    /\ model = NoModel
    /\ hasX = FALSE
    /\ s_sets = <<>>
    /\ status = ""
    /\ x = {}
    /\ B = NoAssignment
    /\ Q = NoAssignment
    /\ summary = <<>>

Generate ==
    /\ pc = "gen"
    /\ s_sets' = _generate_s_sets(data)
    /\ pc' = "generated"
    /\ UNCHANGED <<form, data, model, hasX, status, x, B, Q, summary>>

NextGen == Generate

SpecGen == InitGen /\ [][NextGen]_vars

(***************************************************************************)
(* Properties.                                                             *)
(***************************************************************************)
Solved == status \in {"optimal", "feasible", "infeasible"}

Returned == pc \in {"reported", "raised", "hung", "done"}

\* The assignment held by the model satisfies every constraint built.
HoldsSatisfying ==
    Loaded /\ pc \in {"solved", "hung", "done"}
           /\ Satisfies(form, model, data, s_sets, x, B, Q)

\* The k-th itinerary of the returned summary.
Itinerary(k) == IF form = "LB" THEN summary[k].value.route ELSE summary[k].path

Terminal == IF form = "LB" THEN END ELSE DEPOT

Departures ==
    IF form = "LB" THEN {a \in x : a[1] = START}
    ELSE {a \in x : a[1] = depot_event}

HeadLocation(a) == IF form = "LB" THEN a[2] ELSE a[2][1]

\* C1: on test_data of laeb_example.py (L_1 = 30) the solver finds the
\* constraint set satisfiable, and the minimum-cost assignment selects the
\* three event-arcs with cost 18, B_bar inside the windows and the ride of
\* request 1 within 30.
C1_MinimalExampleOptimum ==
    (form = "LAEB" /\ data = test_data(30) /\ Solved) =>
        /\ status # "infeasible"
        /\ status = "optimal" =>
              /\ x = Range(test_A)
              /\ LAEB_obj(data, x) = 18
              /\ pc = "solved" =>
                    /\ \A j \in Range(data.J) : LAEB_time_windows(data, B, j)
                    /\ B["1-"] - B["1+"] - data.service_times["1+"] <= 30

\* C2: whenever the assignment satisfies all LB constraints, every request
\* has its pickup and its delivery on one returned itinerary, pickup first.
C2_PairingOnItinerary ==
    (form = "LB" /\ pc = "done" /\ HoldsSatisfying) =>
        \A r \in Range(data.Requests) :
            \E k \in 1..Len(summary) :
                \E a, b \in 1..Len(Itinerary(k)) :
                    /\ a < b
                    /\ Itinerary(k)[a] = Pickup(r)
                    /\ Itinerary(k)[b] = Delivery(r)

\* C3: whenever the assignment satisfies all LB constraints, at most K
\* selected arcs leave '0_start' and at most K itineraries are returned.
C3_FleetBound ==
    (form = "LB" /\ HoldsSatisfying) =>
        /\ Cardinality(Departures) <= data.vehicles
        /\ pc = "done" => Len(summary) <= data.vehicles

\* C4: _generate_s_sets returns exactly the sets {'0_start'} \cup T with T a
\* non-empty subset of P \cup D holding some i- without i+, each once:
\* 4^n - 3^n sets for n requests, one precedence_pairing constraint each.
C4_Expected ==
    LET nodes == Range(data.P) \cup Range(data.D)
    IN {{START} \cup T :
           T \in {T \in SUBSET nodes :
                     /\ T # {}
                     /\ \E i \in Range(data.Requests) :
                           Delivery(i) \in T /\ Pickup(i) \notin T}}

C4_SubsetEnumeration ==
    (form = "LB" /\ pc \in {"generated", "built"}) =>
        /\ Range(s_sets) = C4_Expected
        /\ NoDup(s_sets)
        /\ Len(s_sets) = Pow(4, Len(data.Requests)) - Pow(3, Len(data.Requests))

C4_Witness ==
    /\ pc = "generated"
    /\ Len(data.Requests) = 3
    /\ Len(s_sets) = 37

\* C5: a walk that runs out of successors before the end depot is never
\* returned as an ordinary itinerary: every returned itinerary ends at the
\* end depot.
C5_TruncatedWalkNotReturned ==
    pc = "done" =>
        \A k \in 1..Len(summary) : Last(Itinerary(k)) = Terminal

\* C6: get_route_summary on a model whose variables were never given
\* values by a solve returns the "not solved" report.
C6_NotSolvedReport ==
    (Returned /\ status \in {"", "infeasible"}) => pc = "reported"

\* C7: a bundle that lacks a key _build_model reads is rejected by
\* validate_data; the lack never surfaces while the model is built.
C7_MissingKeyCaughtByValidator ==
    (pc # "start" /\ FirstMissing(BuildReads(form), data.keys) # "") =>
        pc = "ValueError"

\* C8: with x[i,j] = 0 the time-consistency and the load-consistency
\* inequality of every arc hold for all B and Q inside their boxes.
C8_BigMVacuity ==
    (form = "LB" /\ pc = "built") =>
        \A a \in Range(model.A) :
            /\ \A bi \in data.tw_start[a[1]]..data.tw_end[a[1]],
                  bj \in data.tw_start[a[2]]..data.tw_end[a[2]] :
                  LB_time_consistency(data, {}, (a[1] :> bi) @@ (a[2] :> bj),
                                      a[1], a[2])
            /\ \A qi \in LB_capacity_lower(data, a[1])..LB_capacity_upper(data, a[1]),
                  qj \in LB_capacity_lower(data, a[2])..LB_capacity_upper(data, a[2]) :
                  LB_load_consistency(data, {}, (a[1] :> qi) @@ (a[2] :> qj),
                                      a[1], a[2])

\* A built LB model with an arc whose inequalities do restrict B and Q when
\* the arc is selected.
C8_Witness ==
    /\ form = "LB"
    /\ pc = "built"
    /\ \E a \in Range(model.A) :
          /\ ~LB_time_consistency(data, {a},
                 (a[1] :> data.tw_end[a[1]]) @@ (a[2] :> data.tw_start[a[2]]),
                 a[1], a[2])
          /\ ~LB_load_consistency(data, {a},
                 (a[1] :> LB_capacity_upper(data, a[1]))
                     @@ (a[2] :> LB_capacity_lower(data, a[2])),
                 a[1], a[2])
          /\ data.tw_start[a[1]] # data.tw_start[a[2]]

\* C9: on the single-request instance with L_1 = 1 (LB bundle and
\* test_data) the solver reports infeasibility, and no assignment held by
\* the model satisfies the constraints.
SingleRequestL1 ==
    \/ form = "LB" /\ data = LBSingleRequest(1)
    \/ form = "LAEB" /\ data = test_data(1)

C9_InfeasibleRideTime ==
    SingleRequestL1 =>
        /\ Solved => status = "infeasible"
        /\ ~HoldsSatisfying

C9_Witness ==
    /\ form = "LB"
    /\ data = LBSingleRequest(1)
    /\ pc = "solved"
    /\ status = "infeasible"

RECURSIVE RunningLoad(_, _, _)
RunningLoad(d, route, p) ==
    IF p = 0 THEN 0 ELSE RunningLoad(d, route, p - 1) + d.load_change[route[p]]

\* C11: whenever the assignment satisfies all LB constraints, the load that
\* get_route_summary reports at each position of each itinerary equals the
\* running sum of q over the nodes visited so far on that itinerary.
C11_ReportedLoadIsActual ==
    (form = "LB" /\ pc = "done" /\ HoldsSatisfying) =>
        \A k \in 1..Len(summary) :
            \A p \in 1..Len(summary[k].value.route) :
                summary[k].value.loads[p]
                    = RunningLoad(data, summary[k].value.route, p)

\* C12: whenever the assignment satisfies all LB constraints, the running
\* sum of q along every returned itinerary stays within [0, Q_max].
C12_LoadWithinCapacity ==
    (form = "LB" /\ pc = "done" /\ HoldsSatisfying) =>
        \A k \in 1..Len(summary) :
            \A p \in 1..Len(summary[k].value.route) :
                /\ 0 <= RunningLoad(data, summary[k].value.route, p)
                /\ RunningLoad(data, summary[k].value.route, p) <= data.capacity

\* Two requests share one itinerary of a vehicle with a single seat.
C12_Witness ==
    /\ form = "LB"
    /\ pc = "done"
    /\ HoldsSatisfying
    /\ data.capacity = 1
    /\ \E k \in 1..Len(summary) :
          /\ {Pickup(1), Pickup(2)} \subseteq Range(summary[k].value.route)
          /\ Last(summary[k].value.route) = END
          /\ \E p \in 1..Len(summary[k].value.route) :
                RunningLoad(data, summary[k].value.route, p) = data.capacity

\* C13: whenever x satisfies visit_once and leave_once over the arcs of A,
\* every walk started from a selected arc leaving '0_start' ends at '0_end'
\* after at most |P| + |D| successor steps and visits no node twice.
C13_WalksReachEnd ==
    (form = "LB" /\ pc \in {"hung", "done"} /\ Loaded
                 /\ LB_DegreesOK(model, data, x)) =>
        /\ pc = "done"
        /\ Len(summary) = Cardinality(Departures)
        /\ \A k \in 1..Len(summary) :
              /\ Last(Itinerary(k)) = END
              /\ NoDup(Itinerary(k))
              /\ Len(Itinerary(k)) - 2 <= Len(data.P) + Len(data.D)

\* One walk passes through all four customer nodes of two requests.
C13_Witness ==
    /\ form = "LB"
    /\ pc = "done"
    /\ LB_DegreesOK(model, data, x)
    /\ Len(data.Requests) = 2
    /\ \E k \in 1..Len(summary) :
          /\ Len(Itinerary(k)) - 2 = Len(data.P) + Len(data.D)
          /\ Last(Itinerary(k)) = END

====
